---------------------------- MODULE Spec2Model ----------------------------
(***************************************************************************)
(* Model of Assembler/Assembler.py: the two-pass Hack assembler.           *)
(*                                                                         *)
(* Text is modelled as a sequence of one-character strings, so that        *)
(* startswith, slicing, split, int(), str() and binary formatting are      *)
(* computed the way the Python code computes them.  A word of machine code *)
(* is a sequence of the characters "0" and "1".                            *)
(***************************************************************************)
EXTENDS Integers, Sequences, FiniteSets, TLC

(***************************************************************************)
(* Bounds of the model.                                                    *)
(***************************************************************************)
\* longest source file (in lines) given as a single-file input
MaxLines == 3
\* most .asm files a directory input holds
MaxFiles == 3

(***************************************************************************)
(* Python values.  SymbolTable.get_value returns the bool False for an     *)
(* absent symbol; addresses are non-negative, so False is encoded as a     *)
(* value no address can take.  `not v` is true of False and of 0,          *)
(* `v is False` is true of False only.                                     *)
(***************************************************************************)
PyFalse == -1

PyNot(v) == v = PyFalse \/ v = 0

PyIsFalse(v) == v = PyFalse

(***************************************************************************)
(* Text helpers (Python str methods and conversions).                      *)
(***************************************************************************)
DigitChar == <<"0", "1", "2", "3", "4", "5", "6", "7", "8", "9">>

Digits == {DigitChar[i] : i \in DOMAIN DigitChar}

DigitVal(c) == (CHOOSE i \in DOMAIN DigitChar : DigitChar[i] = c) - 1

\* str.startswith(c) for a one-character prefix
StartsWith(s, c) == Len(s) > 0 /\ s[1] = c

\* c in s
Contains(s, c) == \E i \in 1..Len(s) : s[i] = c

\* s.strip(): leading and trailing blanks removed
RECURSIVE Strip(_)
Strip(s) ==
    IF s = <<>> THEN s
    ELSE IF s[1] = " " THEN Strip(Tail(s))
    ELSE IF s[Len(s)] = " " THEN Strip(SubSeq(s, 1, Len(s) - 1))
    ELSE s

\* s.split("//")[0]: the text before the first "//"
BeforeComment(s) ==
    LET at == {i \in 1..(Len(s) - 1) : s[i] = "/" /\ s[i + 1] = "/"}
    IN  IF at = {} THEN s
        ELSE SubSeq(s, 1, (CHOOSE i \in at : \A j \in at : i <= j) - 1)

\* s.split(c) for a one-character separator
RECURSIVE Split(_, _)
Split(s, c) ==
    LET at == {i \in 1..Len(s) : s[i] = c}
    IN  IF at = {} THEN <<s>>
        ELSE LET i == CHOOSE k \in at : \A j \in at : k <= j
             IN  <<SubSeq(s, 1, i - 1)>> \o Split(SubSeq(s, i + 1, Len(s)), c)

\* int(s) raises ValueError unless s is a decimal literal
IsInt(s) == s # <<>> /\ \A i \in 1..Len(s) : s[i] \in Digits

\* int(s) of a decimal literal
RECURSIVE ParseInt(_)
ParseInt(s) ==
    IF s = <<>> THEN 0
    ELSE 10 * ParseInt(SubSeq(s, 1, Len(s) - 1)) + DigitVal(s[Len(s)])

\* str(n), and f"{n}", of a non-negative integer
RECURSIVE Str(_)
Str(n) ==
    IF n < 10 THEN <<DigitChar[n + 1]>>
    ELSE Str(n \div 10) \o <<DigitChar[(n % 10) + 1]>>

\* f"{n:b}" of a non-negative integer
RECURSIVE Bin(_)
Bin(n) ==
    IF n < 2 THEN <<DigitChar[n + 1]>>
    ELSE Bin(n \div 2) \o <<DigitChar[(n % 2) + 1]>>

\* k * '0' (the empty string when k <= 0)
Zeros(k) == [i \in 1..k |-> "0"]

(***************************************************************************)
(* class SymbolTable                                                       *)
(***************************************************************************)
store_symbol(t, symbol, address) ==
    [s \in DOMAIN t \cup {symbol} |-> IF s = symbol THEN address ELSE t[s]]

get_value(t, symbol) == IF symbol \in DOMAIN t THEN t[symbol] ELSE PyFalse

RegisterNames == {<<"R">> \o Str(i) : i \in 0..15}

PredefinedNames ==
    {<<"S", "P">>, <<"L", "C", "L">>, <<"A", "R", "G">>, <<"T", "H", "I", "S">>,
     <<"T", "H", "A", "T">>, <<"S", "C", "R", "E", "E", "N">>, <<"K", "B", "D">>}
    \cup RegisterNames

_get_defaults ==
    [s \in PredefinedNames |->
        IF s = <<"S", "P">> THEN 0
        ELSE IF s = <<"L", "C", "L">> THEN 1
        ELSE IF s = <<"A", "R", "G">> THEN 2
        ELSE IF s = <<"T", "H", "I", "S">> THEN 3
        ELSE IF s = <<"T", "H", "A", "T">> THEN 4
        ELSE IF s = <<"S", "C", "R", "E", "E", "N">> THEN 16384
        ELSE IF s = <<"K", "B", "D">> THEN 24576
        ELSE ParseInt(Tail(s))]

(***************************************************************************)
(* class Translator: constants and the mnemonic map                        *)
(***************************************************************************)
A_INSTRUCTION_LENGTH == 15

A_SIZE == 2 ^ 15 - 1

A_OP_CODE == 0

C_OP_CODE == 1

C_FILLER == 11

Null == <<"n", "u", "l", "l">>

\* The content of the data file c_instruction_map, read by _setup_c_map: a
\* part of the Hack table, with fragments of widths 7, 3 and 3.
c_instruction_map ==
    [comp |-> (<<"0">> :> <<"0", "1", "0", "1", "0", "1", "0">>)
              @@ (<<"A">> :> <<"0", "1", "1", "0", "0", "0", "0">>)
              @@ (<<"D">> :> <<"0", "0", "0", "1", "1", "0", "0">>),
     dest |-> (Null :> <<"0", "0", "0">>)
              @@ (<<"D">> :> <<"0", "1", "0">>)
              @@ (<<"M">> :> <<"0", "0", "1">>),
     jmp  |-> (Null :> <<"0", "0", "0">>)
              @@ (<<"J", "M", "P">> :> <<"1", "1", "1">>)
              @@ (<<"J", "G", "T">> :> <<"0", "0", "1">>)]

(***************************************************************************)
(* The outcome of encoding one instruction: a word, a sys.exit, or an      *)
(* uncaught exception (which ends the interpreter with status 1).          *)
(***************************************************************************)
Word(w) == [kind |-> "word", instr |-> w, failure |-> "none"]

Fatal(why) == [kind |-> "exit", instr |-> <<>>, failure |-> why]

\* ExitStatus with the bad-address exit leaving status 0 (sys.exit() without
\* an argument)
ExitStatus_zero ==
    [MissingPath |-> 3, InvalidInputKind |-> 3, AddressOutOfRange |-> 0,
     UnknownMnemonic |-> 1, UnboundLocal |-> 1]

\* The status the process ends with, by the reason: the argument of the
\* sys.exit calls, and 1 for an exception nothing catches (KeyError of a
\* mnemonic lookup, UnboundLocalError of process_c_instruction).
ExitStatus ==
    [MissingPath |-> 3, InvalidInputKind |-> 3, AddressOutOfRange |-> 3,
     UnknownMnemonic |-> 1, UnboundLocal |-> 1]

\* Translator._handle_bad_address: whether it exits
_handle_bad_address(address) == PyIsFalse(address)

\* _convert_a_instruction without the zero fill
_convert_a_instruction_nofill(t, address) ==
    LET addr1 == IF address > A_SIZE THEN get_value(t, Str(address)) ELSE address
    IN  IF _handle_bad_address(addr1) THEN Fatal("AddressOutOfRange")
        ELSE Word(Str(A_OP_CODE) \o Bin(addr1))

\* _convert_a_instruction comparing with >= A_SIZE
_convert_a_instruction_ge(t, address) ==
    LET addr1 == IF address >= A_SIZE THEN get_value(t, Str(address)) ELSE address
    IN  IF _handle_bad_address(addr1) THEN Fatal("AddressOutOfRange")
        ELSE LET addr == Bin(addr1)
                 zeros_to_fill == A_INSTRUCTION_LENGTH - Len(addr)
             IN  Word(Str(A_OP_CODE) \o Zeros(zeros_to_fill) \o addr)

\* Translator._convert_a_instruction
_convert_a_instruction(t, address) ==
    LET addr1 == IF address > A_SIZE THEN get_value(t, Str(address)) ELSE address
    IN  IF _handle_bad_address(addr1) THEN Fatal("AddressOutOfRange")
        ELSE LET addr == Bin(addr1)
                 zeros_to_fill == A_INSTRUCTION_LENGTH - Len(addr)
             IN  Word(Str(A_OP_CODE) \o Zeros(zeros_to_fill) \o addr)

\* _allocate_address_if_needed without the increment of next_free_mem
_allocate_no_increment(t, nfm, address_key) ==
    LET address == get_value(t, address_key)
    IN  IF PyIsFalse(address)
        THEN [address |-> nfm,
              table |-> store_symbol(t, address_key, nfm),
              next_free_mem |-> nfm]
        ELSE [address |-> address, table |-> t, next_free_mem |-> nfm]

\* _allocate_address_if_needed testing `not address` for `address is False`
_allocate_if_falsy(t, nfm, address_key) ==
    LET address == get_value(t, address_key)
    IN  IF PyNot(address)
        THEN [address |-> nfm,
              table |-> store_symbol(t, address_key, nfm),
              next_free_mem |-> nfm + 1]
        ELSE [address |-> address, table |-> t, next_free_mem |-> nfm]

\* Translator._allocate_address_if_needed: the address, and the table and the
\* free-address counter it leaves
_allocate_address_if_needed(t, nfm, address_key) ==
    LET address == get_value(t, address_key)
    IN  IF PyIsFalse(address)
        THEN [address |-> nfm,
              table |-> store_symbol(t, address_key, nfm),
              next_free_mem |-> nfm + 1]
        ELSE [address |-> address, table |-> t, next_free_mem |-> nfm]

\* Translator.process_a_instruction: the outcome, the table and the counter
process_a_instruction(t, nfm, code_piece) ==
    LET address_key == Tail(code_piece)
    IN  IF IsInt(address_key)
        THEN [res |-> _convert_a_instruction(t, ParseInt(address_key)),
              table |-> t, next_free_mem |-> nfm]
        ELSE LET a == _allocate_address_if_needed(t, nfm, address_key)
             IN  [res |-> _convert_a_instruction(a.table, a.address),
                  table |-> a.table, next_free_mem |-> a.next_free_mem]

\* _convert_c_instruction with the fragments in the order dest, comp, jmp
_convert_c_instruction_dest_first(comp, dest, jmp) ==
    IF /\ comp \in DOMAIN c_instruction_map.comp
       /\ dest \in DOMAIN c_instruction_map.dest
       /\ jmp \in DOMAIN c_instruction_map.jmp
    THEN Word(Str(C_OP_CODE) \o Str(C_FILLER)
              \o c_instruction_map.dest[dest]
              \o c_instruction_map.comp[comp]
              \o c_instruction_map.jmp[jmp])
    ELSE Fatal("UnknownMnemonic")

\* Translator._convert_c_instruction (a missing key raises KeyError)
_convert_c_instruction(comp, dest, jmp) ==
    IF /\ comp \in DOMAIN c_instruction_map.comp
       /\ dest \in DOMAIN c_instruction_map.dest
       /\ jmp \in DOMAIN c_instruction_map.jmp
    THEN Word(Str(C_OP_CODE) \o Str(C_FILLER)
              \o c_instruction_map.comp[comp]
              \o c_instruction_map.dest[dest]
              \o c_instruction_map.jmp[jmp])
    ELSE Fatal("UnknownMnemonic")

\* Translator.process_c_instruction (with neither "=" nor ";" the local
\* `instruction` is unbound at the return: UnboundLocalError)
process_c_instruction(code_piece) ==
    IF Contains(code_piece, "=")
    THEN LET parts == Split(code_piece, "=")
         IN  _convert_c_instruction(parts[2], parts[1], Null)
    ELSE IF Contains(code_piece, ";")
    THEN LET parts == Split(code_piece, ";")
         IN  _convert_c_instruction(parts[1], Null, parts[2])
    ELSE Fatal("UnboundLocal")

(***************************************************************************)
(* class Reader                                                            *)
(***************************************************************************)
\* line.strip().split("//")[0].strip()
LinePart(line) == Strip(BeforeComment(Strip(line)))

\* Reader.check_if_label: what it returns (False for a label line) and the
\* symbol table it leaves
check_if_label(t, code_piece, counter) ==
    IF StartsWith(code_piece, "(")
    THEN LET label_name == SubSeq(code_piece, 2, Len(code_piece) - 1)
         IN  [keep |-> FALSE,
              table |-> IF PyNot(get_value(t, label_name))
                        THEN store_symbol(t, label_name, counter + 1)
                        ELSE t]
    ELSE [keep |-> TRUE, table |-> t]

(***************************************************************************)
(* Inputs.  The lines a source file is made of: label lines, A-instructions*)
(* with literals on both sides of the 15-bit limit and with symbols,       *)
(* C-instructions of both forms (one followed by a comment, one with a     *)
(* mnemonic the map does not hold) and a line that holds only a comment.   *)
(***************************************************************************)
Lines ==
    {<<"(", "A", ")">>,
     <<"(", "S", "P", ")">>,
     <<"(", "3", "2", "7", "6", "8", ")">>,
     <<"@", "0">>,
     <<"@", "3", "2", "7", "6", "7">>,
     <<"@", "3", "2", "7", "6", "8">>,
     <<"@", "A">>,
     <<"@", "x">>,
     <<"@", "S", "P">>,
     <<"D", "=", "A", " ", "/", "/", "c">>,
     <<"0", ";", "J", "M", "P">>,
     <<"D", "=", "Q">>,
     <<"/", "/">>}

\* the source files given as a single-file input
Sources == UNION {[1..n -> Lines] : n \in 0..MaxLines}

\* the .asm files a directory input may hold
DirSources ==
    {<<<<"(", "A", ")">>, <<"@", "A">>, <<"@", "x">>, <<"@", "B">>, <<"(", "B", ")">>>>,
     <<<<"@", "x">>, <<"@", "A">>, <<"M", "=", "D">>>>,
     <<<<"@", "A">>, <<"0", ";", "J", "G", "T">>, <<"(", "x", ")">>, <<"@", "x">>>>,
     <<<<"(", "3", "2", "7", "6", "7", ")">>, <<"@", "3", "2", "7", "6", "7">>, <<"@", "0">>>>,
     <<<<"@", "3", "2", "7", "6", "8">>>>,
     <<<<"D", "=", "A">>, <<"D">>>>}

\* the directories: the files in the order glob yields them
Batches == UNION {[1..n -> DirSources] : n \in 0..MaxFiles}

\* what sys.argv[1] names: nothing, a path that does not exist, a file with
\* another suffix than .asm, an .asm file, a directory
InputKinds == {"noarg", "missing", "other_file", "asm_file", "dir"}

(***************************************************************************)
(* State.                                                                  *)
(***************************************************************************)
VARIABLES
    input,          \* the kind of the input path
    files,          \* the source files to translate, in order
    pc,             \* where the run is: start, main, file, read, translate, done, exit
    file_idx,       \* the file being translated (0: none yet)
    table,          \* symbol_table.table of the file's Reader and Translator
    line_no,        \* lines of the file read_source has consumed
    line_counter,   \* read_source's line_counter
    program_code,   \* read_source's program_code (Translator.code)
    next_free_mem,  \* Translator.next_free_mem
    ip,             \* instructions of Translator.code that translate has handled
    outputs,        \* the .hack files written so far, one word list per file
    exit_status,    \* the status the process ended with (-1 while it runs)
    failure         \* why the process ended early ("none" if it did not)

vars == <<input, files, pc, file_idx, table, line_no, line_counter, program_code,
          next_free_mem, ip, outputs, exit_status, failure>>

\* a symbol table shared by every Reader of the run
ReaderInit_shared == table

\* Reader.__init__: the symbol table a new Reader holds
ReaderInit == _get_defaults

\* Translator.__init__: the free-address counter a new Translator holds
TranslatorInit == 16

Init ==
    /\ input \in InputKinds
    /\ files \in (IF input = "asm_file" THEN {<<s>> : s \in Sources}
                  ELSE IF input = "dir" THEN Batches
                  ELSE {<<>>})
    /\ pc = "start"
    /\ file_idx = 0
    /\ table = _get_defaults
    /\ line_no = 0
    /\ line_counter = -1
    /\ program_code = <<>>
    /\ next_free_mem = TranslatorInit
    /\ ip = 0
    /\ outputs = <<>>
    /\ exit_status = -1
    /\ failure = "none"

\* the per-file state, untouched by the steps outside a translation
fileVars == <<table, line_no, line_counter, program_code, next_free_mem, ip, outputs>>

(***************************************************************************)
(* The script body under __main__.                                         *)
(***************************************************************************)
Startup ==
    /\ pc = "start"
    /\ IF input = "noarg"
       THEN /\ pc' = "exit" /\ exit_status' = ExitStatus.MissingPath
            /\ failure' = "MissingPath"
       ELSE IF input = "missing"
       THEN /\ pc' = "exit" /\ exit_status' = ExitStatus.MissingPath
            /\ failure' = "MissingPath"
       ELSE /\ pc' = "main" /\ UNCHANGED <<exit_status, failure>>
    /\ UNCHANGED <<input, files, file_idx, fileVars>>

\* is_asm_input: whether it exits
is_asm_input(kind) == kind # "asm_file"

\* main: a file is checked for its suffix and translated; a directory's
\* .asm files are translated one after the other
Main ==
    /\ pc = "main"
    /\ IF input \in {"other_file", "asm_file"}
       THEN IF is_asm_input(input)
            THEN /\ pc' = "exit" /\ exit_status' = ExitStatus.InvalidInputKind
                 /\ failure' = "InvalidInputKind"
                 /\ UNCHANGED file_idx
            ELSE /\ pc' = "file" /\ file_idx' = 1
                 /\ UNCHANGED <<exit_status, failure>>
       ELSE IF Len(files) > 0
            THEN /\ pc' = "file" /\ file_idx' = 1
                 /\ UNCHANGED <<exit_status, failure>>
            ELSE /\ pc' = "done" /\ exit_status' = 0
                 /\ UNCHANGED <<file_idx, failure>>
    /\ UNCHANGED <<input, files, fileVars>>

(***************************************************************************)
(* _translate_assembly_to_hack, step by step.                              *)
(***************************************************************************)
\* Reader(path) and the start of read_source
ReadSourceBegin ==
    /\ pc = "file"
    /\ table' = ReaderInit
    /\ program_code' = <<>>
    /\ line_counter' = -1
    /\ line_no' = 0
    /\ pc' = "read"
    /\ UNCHANGED <<input, files, file_idx, next_free_mem, ip, outputs,
                   exit_status, failure>>

\* one turn of read_source's loop over the lines of the file
ReadSourceLine ==
    /\ pc = "read"
    /\ line_no < Len(files[file_idx])
    /\ LET line_part == LinePart(files[file_idx][line_no + 1])
       IN  IF Len(line_part) > 0
           THEN LET r == check_if_label(table, line_part, line_counter)
                IN  /\ table' = r.table
                    /\ IF r.keep
                       THEN /\ program_code' = Append(program_code, line_part)
                            /\ line_counter' = line_counter + 1
                       ELSE UNCHANGED <<program_code, line_counter>>
           ELSE UNCHANGED <<table, program_code, line_counter>>
    /\ line_no' = line_no + 1
    /\ UNCHANGED <<input, files, pc, file_idx, next_free_mem, ip, outputs,
                   exit_status, failure>>

\* read_source returns; Translator(...) is built and translate opens the
\* output file
TranslateBegin ==
    /\ pc = "read"
    /\ line_no = Len(files[file_idx])
    /\ next_free_mem' = TranslatorInit
    /\ ip' = 0
    /\ outputs' = Append(outputs, <<>>)
    /\ pc' = "translate"
    /\ UNCHANGED <<input, files, file_idx, table, line_no, line_counter,
                   program_code, exit_status, failure>>

\* Translator.translate: the outcome of one instruction
translate(t, nfm, assembly_code) ==
    IF StartsWith(assembly_code, "@")
    THEN process_a_instruction(t, nfm, assembly_code)
    ELSE [res |-> process_c_instruction(assembly_code),
          table |-> t, next_free_mem |-> nfm]

\* one turn of translate's loop over the instructions
TranslateLine ==
    /\ pc = "translate"
    /\ ip < Len(program_code)
    /\ LET r == translate(table, next_free_mem, program_code[ip + 1])
       IN  /\ table' = r.table
           /\ next_free_mem' = r.next_free_mem
           /\ IF r.res.kind = "word"
              THEN /\ outputs' = [outputs EXCEPT ![file_idx] = Append(@, r.res.instr)]
                   /\ ip' = ip + 1
                   /\ UNCHANGED <<pc, exit_status, failure>>
              ELSE /\ pc' = "exit"
                   /\ exit_status' = ExitStatus[r.res.failure]
                   /\ failure' = r.res.failure
                   /\ UNCHANGED <<outputs, ip>>
    /\ UNCHANGED <<input, files, file_idx, line_no, line_counter, program_code>>

\* translate returns: main goes on with the directory's next file, or ends
TranslateEnd ==
    /\ pc = "translate"
    /\ ip = Len(program_code)
    /\ IF file_idx < Len(files)
       THEN /\ file_idx' = file_idx + 1 /\ pc' = "file"
            /\ UNCHANGED exit_status
       ELSE /\ pc' = "done" /\ exit_status' = 0
            /\ UNCHANGED file_idx
    /\ UNCHANGED <<input, files, fileVars, failure>>

Next ==
    \/ Startup
    \/ Main
    \/ ReadSourceBegin
    \/ ReadSourceLine
    \/ TranslateBegin
    \/ TranslateLine
    \/ TranslateEnd

Spec == Init /\ [][Next]_vars

(***************************************************************************)
(* What the claims speak of, read off the source text alone.               *)
(***************************************************************************)
\* a stripped line that is a label definition; its name
IsLabelLine(l) == Len(l) > 0 /\ l[1] = "("

LabelName(l) == SubSeq(l, 2, Len(l) - 1)

\* a stripped line that is an instruction (neither blank nor a label)
IsInstr(l) == Len(l) > 0 /\ l[1] # "("

\* the instructions of a source file, in order
InstrLines(src) == SelectSeq([i \in 1..Len(src) |-> LinePart(src[i])], IsInstr)

\* the number of instructions before line j of a source file
InstrBefore(src, j) == Cardinality({i \in 1..(j - 1) : IsInstr(LinePart(src[i]))})

\* the lines of a source file that define the label `name`
LabelDefs(src, name) ==
    {j \in 1..Len(src) : IsLabelLine(LinePart(src[j])) /\ LabelName(LinePart(src[j])) = name}

\* the names a source file defines as labels
LabelNames(src) ==
    {LabelName(LinePart(src[j])) : j \in {k \in 1..Len(src) : IsLabelLine(LinePart(src[k]))}}

\* an A-instruction with a symbolic name (not a decimal literal)
IsSymbolic(c) == c[1] = "@" /\ ~IsInt(Tail(c))

\* an A-instruction with a decimal literal
IsLiteral(c) == c[1] = "@" /\ IsInt(Tail(c))

\* n as a 15-bit binary number, most significant bit first
Bits15(n) == [k \in 1..15 |-> IF (n \div (2 ^ (15 - k))) % 2 = 1 THEN "1" ELSE "0"]

\* the word of an A-instruction with address n
AWord(n) == <<"0">> \o Bits15(n)

Range(f) == {f[i] : i \in DOMAIN f}

\* the names, in order of first use, of the symbolic A-instructions among the
\* first n instructions of `code` that are not in `bound`
RECURSIVE FirstUses(_, _, _)
FirstUses(code, n, bound) ==
    IF n = 0 THEN <<>>
    ELSE LET prev == FirstUses(code, n - 1, bound)
             c == code[n]
         IN  IF IsSymbolic(c) /\ Tail(c) \notin bound /\ Tail(c) \notin Range(prev)
             THEN Append(prev, Tail(c))
             ELSE prev

\* the position of a name in a sequence of distinct names
IndexOf(seq, x) == CHOOSE k \in 1..Len(seq) : seq[k] = x

\* a file is being encoded, or the run ended while or after encoding it
InPass2 == file_idx > 0 /\ pc \in {"translate", "done", "exit"}

\* file f of the run has been translated completely
Completed(f) == f < file_idx \/ (f = file_idx /\ pc = "done")

\* the file being translated, and the words written for it so far
CurSrc == files[file_idx]

CurOut == outputs[file_idx]

(***************************************************************************)
(* The claims.                                                             *)
(***************************************************************************)

\* C1: translate writes one word per instruction line, in source order (the
\* word of the i-th instruction is an A-word exactly when that line starts
\* with "@"), none for a label line, and every word is 16 characters of 0
\* and 1; a file translated completely has as many words as instruction
\* lines.
C1_OneWordPerInstruction ==
    \A f \in 1..Len(outputs) :
        LET ins == InstrLines(files[f])
            out == outputs[f]
        IN  /\ Len(out) <= Len(ins)
            /\ Completed(f) => Len(out) = Len(ins)
            /\ \A i \in 1..Len(out) :
                  /\ Len(out[i]) = 16
                  /\ \A k \in 1..Len(out[i]) : out[i][k] \in {"0", "1"}
                  /\ (out[i][1] = "0") <=> (ins[i][1] = "@")

\* C1 witness: a file with a label line translated completely into an
\* A-word followed by a C-word.
C1_Witness ==
    /\ input = "asm_file" /\ pc = "done"
    /\ LabelNames(files[1]) # {}
    /\ Len(outputs[1]) = 2
    /\ outputs[1][1][1] = "0"
    /\ outputs[1][2][1] = "1"

\* C2: after pass 1 every label whose name was not bound before its
\* definition line (not predefined, not defined by an earlier label line) is
\* bound to the number of instruction lines before that line; label lines
\* are not emitted and do not advance the counter.
C2_LabelBoundToInstructionCount ==
    pc = "translate" =>
        /\ program_code = InstrLines(CurSrc)
        /\ line_counter = Len(program_code) - 1
        /\ \A j \in 1..Len(CurSrc) :
              LET l == LinePart(CurSrc[j])
              IN  (/\ IsLabelLine(l)
                   /\ LabelName(l) \notin PredefinedNames
                   /\ \A i \in LabelDefs(CurSrc, LabelName(l)) : j <= i)
                  => get_value(table, LabelName(l)) = InstrBefore(CurSrc, j)

\* C3: during both passes every predefined symbol keeps its
\* architecture-defined value.
C3_PredefinedNeverOverwritten ==
    pc \in {"read", "translate"} =>
        \A s \in PredefinedNames : get_value(table, s) = _get_defaults[s]

\* a step keeps every binding of the symbol table
BindingsKept ==
    \A s \in DOMAIN table : (s \in DOMAIN table' /\ table'[s] = table[s])

\* C4: once a symbol is bound, no step of the file's translation changes
\* its address.
C4_BindingNeverChanges ==
    [][(pc \in {"read", "translate"}) => BindingsKept]_vars

\* C5: in pass 2 the k-th distinct symbolic name that is unbound when first
\* met (neither predefined nor a label of the file) is bound to 16 + (k - 1),
\* every @name of such a name is encoded with that address, and the
\* free-address counter has advanced once per such name.
C5_VariablesFrom16 ==
    InPass2 =>
        LET fu == FirstUses(program_code, ip, PredefinedNames \cup LabelNames(CurSrc))
        IN  /\ next_free_mem = 16 + Len(fu)
            /\ \A k \in 1..Len(fu) : get_value(table, fu[k]) = 16 + (k - 1)
            /\ \A i \in 1..Len(CurOut) :
                  (IsSymbolic(program_code[i]) /\ Tail(program_code[i]) \in Range(fu))
                  => CurOut[i] = AWord(16 + (IndexOf(fu, Tail(program_code[i])) - 1))

\* C5 witness: two variables allocated, the first of them used twice.
C5_Witness ==
    /\ pc = "done" /\ file_idx > 0
    /\ next_free_mem = 18
    /\ \E i, j \in 1..Len(CurOut) :
          /\ i + 1 < j
          /\ program_code[i] = program_code[j]
          /\ CurOut[i] = AWord(16)
          /\ CurOut[j] = AWord(16)
          /\ CurOut[i + 1] = AWord(17)

\* C6: @n with a literal n <= 32767 is encoded as 0 followed by n in 15 bits,
\* whatever the symbol table holds; with n >= 32768 a word is written only
\* if the text of n is bound, and the address-out-of-range exit happens
\* exactly at such an instruction whose text is not bound, with no word
\* written for it.
C6_LiteralAddress ==
    InPass2 =>
        /\ \A i \in 1..Len(CurOut) :
              IsLiteral(program_code[i]) =>
                  LET n == ParseInt(Tail(program_code[i]))
                  IN  /\ n <= 32767 => CurOut[i] = AWord(n)
                      /\ n >= 32768 => Tail(program_code[i]) \in DOMAIN table
        /\ failure = "AddressOutOfRange" =>
              /\ pc = "exit"
              /\ exit_status # 0
              /\ Len(CurOut) = ip
              /\ ip < Len(program_code)
              /\ IsLiteral(program_code[ip + 1])
              /\ ParseInt(Tail(program_code[ip + 1])) >= 32768
              /\ Tail(program_code[ip + 1]) \notin DOMAIN table
        /\ (pc = "done" /\ failure = "none") =>
              \A i \in 1..Len(program_code) :
                  (IsLiteral(program_code[i])
                   /\ ParseInt(Tail(program_code[i])) >= 32768)
                  => Tail(program_code[i]) \in DOMAIN table

\* C6 witness: @32767 was encoded, the symbol table binding the text 32767
\* to another address, or the run ended at an unbound @32768 after a word.
C6_Witness ==
    /\ InPass2
    /\ \E i \in 1..Len(CurOut) :
          /\ program_code[i] = <<"@", "3", "2", "7", "6", "7">>
          /\ \/ (failure = "AddressOutOfRange" /\ input = "asm_file")
             \/ (pc = "done" /\ <<"3", "2", "7", "6", "7">> \in DOMAIN table)

\* C7: the word of dest=comp is the prefix 111 followed by the fragments of
\* comp, of dest and of the null jump; the word of comp;jmp is the prefix
\* followed by the fragments of comp, of the null destination and of jmp.
C7_CInstructionFields ==
    InPass2 =>
        \A i \in 1..Len(CurOut) :
            LET c == program_code[i]
                m == c_instruction_map
            IN  c[1] # "@" =>
                    /\ CurOut[i][1] = "1" /\ CurOut[i][2] = "1"
                    /\ IF \E k \in 1..Len(c) : c[k] = "="
                       THEN LET d == CHOOSE k \in 1..Len(c) : c[k] = "="
                            IN  CurOut[i] = <<"1", "1", "1">>
                                            \o m.comp[SubSeq(c, d + 1, Len(c))]
                                            \o m.dest[SubSeq(c, 1, d - 1)]
                                            \o m.jmp[Null]
                       ELSE LET d == CHOOSE k \in 1..Len(c) : c[k] = ";"
                            IN  CurOut[i] = <<"1", "1", "1">>
                                            \o m.comp[SubSeq(c, 1, d - 1)]
                                            \o m.dest[Null]
                                            \o m.jmp[SubSeq(c, d + 1, Len(c))]

\* C7 witness: a file holding both forms was translated completely.
C7_Witness ==
    /\ pc = "done" /\ file_idx > 0
    /\ \E i, j \in 1..Len(CurOut) :
          /\ program_code[i] = <<"D", "=", "A">>
          /\ program_code[j] = <<"0", ";", "J", "M", "P">>

\* The fatal error classes C8 names.
FatalClasses == {"InvalidInputKind", "MissingPath", "AddressOutOfRange", "UnknownMnemonic"}

\* C8 (as claimed): the status a run ends with on a fatal error is the
\* status of no other error class.
C8_StatusIdentifiesClass ==
    failure \in FatalClasses =>
        \A c \in FatalClasses \ {failure} : ExitStatus[c] # exit_status

\* C8 (amended): a fatal error ends the whole run at once (no further step,
\* no word for the failing instruction, no later file opened) with a
\* non-zero status: 3 for a wrong suffix, a missing path and an address out
\* of range, 1 for an exception nothing catches (a mnemonic the map does not
\* hold, a C-instruction with neither "=" nor ";").
C8_FatalErrorEndsRun ==
    /\ failure # "none" =>
          /\ pc = "exit"
          /\ ~ENABLED Next
          /\ exit_status # 0
          /\ exit_status = (IF failure \in {"UnknownMnemonic", "UnboundLocal"} THEN 1 ELSE 3)
          /\ Len(outputs) = file_idx
          /\ file_idx > 0 => Len(CurOut) = ip
    /\ pc = "exit" => failure # "none"
    /\ pc = "done" => (exit_status = 0 /\ failure = "none")

\* C8 witness: a directory run ended by an address out of range in a file
\* that is not the last one, after a file was translated.
C8_Witness ==
    /\ input = "dir"
    /\ failure = "AddressOutOfRange"
    /\ exit_status = 3
    /\ 1 < file_idx /\ file_idx < Len(files)

\* C9: no word is written before pass 1 has read every line, and @name of a
\* name the file defines as a label (anywhere) is encoded with the address
\* bound to it, which is the instruction address of a line defining it (of
\* the line, for a name defined once) or its predefined value, never a
\* variable address; the free-address counter counts only names that are
\* not labels.
C9_LabelsResolvedBeforeEncoding ==
    InPass2 =>
        /\ line_no = Len(CurSrc)
        /\ \A i \in 1..Len(CurOut) :
              LET c == program_code[i]
                  name == Tail(c)
                  defs == LabelDefs(CurSrc, name)
              IN  (IsSymbolic(c) /\ defs # {}) =>
                      /\ CurOut[i] = AWord(get_value(table, name))
                      /\ \/ \E j \in defs : get_value(table, name) = InstrBefore(CurSrc, j)
                         \/ name \in PredefinedNames /\ get_value(table, name) = _get_defaults[name]
                      /\ (Cardinality(defs) = 1 /\ name \notin PredefinedNames)
                         => \A j \in defs : CurOut[i] = AWord(InstrBefore(CurSrc, j))
        /\ next_free_mem - 16 <=
              Cardinality({Tail(program_code[i]) : i \in {k \in 1..ip : IsSymbolic(program_code[k])}}
                          \ LabelNames(CurSrc))

\* C9 witness: a file translated completely in which @A refers to a label
\* bound to address 0 and @B to a label defined after the reference.
C9_Witness ==
    /\ pc = "done" /\ file_idx > 0
    /\ \E i, j \in 1..Len(CurOut) :
          /\ program_code[i] = <<"@", "A">>
          /\ LabelDefs(CurSrc, <<"A">>) # {}
          /\ CurOut[i] = AWord(0)
          /\ program_code[j] = <<"@", "B">>
          /\ \E d \in LabelDefs(CurSrc, <<"B">>) : InstrBefore(CurSrc, d) >= j
          /\ CurOut[j] = AWord(3)

\* the names a source file can bind: its labels and the symbols of its
\* A-instructions
NamesOf(src) ==
    LabelNames(src) \cup
    {Tail(LinePart(src[j])) : j \in {k \in 1..Len(src) : StartsWith(LinePart(src[k]), "@")}}

\* C10: every file starts from the 23 predefined symbols, instruction
\* counter -1 and free-address counter 16; while a file is translated the
\* table binds only predefined names and names of that file; and two files
\* of one run with the same text get the same words, whatever came before.
C10_FilesAreIndependent ==
    /\ (pc = "read" /\ line_no = 0) =>
          /\ table = _get_defaults
          /\ Cardinality(DOMAIN table) = 23
          /\ line_counter = -1
    /\ (pc = "translate" /\ ip = 0) => next_free_mem = 16
    /\ pc \in {"read", "translate"} =>
          DOMAIN table \subseteq PredefinedNames \cup NamesOf(CurSrc)
    /\ \A f, g \in 1..Len(outputs) :
          (Completed(f) /\ Completed(g) /\ files[f] = files[g]) => outputs[f] = outputs[g]

\* C10 witness: a directory of three files translated completely, the first
\* and the last with the same text, the second defining as a label a name the
\* others use as a variable.
C10_Witness ==
    /\ input = "dir" /\ pc = "done" /\ Len(files) = 3
    /\ files[1] = files[3]
    /\ files[2] # files[1]
    /\ \E name \in LabelNames(files[2]) :
          /\ name \notin LabelNames(files[1])
          /\ name \in NamesOf(files[1])

============================================================================
